---- MODULE Spec2Model ----
(***************************************************************************)
(* A model of vquant's factor access layer: Vquant.get_ohlcv and           *)
(* Vquant.get_factors (src/vquant/core.py), StoredFactor.fetch             *)
(* (src/vquant/factors.py), DefaultStorageAdapter.get_path                 *)
(* (src/vquant/storage.py) and the incremental-merge save_factor exercised *)
(* by src/tests/storage_test.py.                                           *)
(*                                                                         *)
(* A pandas table is modelled by its row index (a sequence of labels), its *)
(* column labels (a sequence) and its columns (a sequence of sequences of  *)
(* cells, positionally parallel to the labels).  A cell is <<v>> for the   *)
(* number v and <<>> for the missing marker (NaN).                         *)
(***************************************************************************)
EXTENDS Integers, Sequences, FiniteSets, TLC

\* ------------------------------------------------------------------ bounds
\* Number of distinct dates that occur in any record set.
NumDates == 3
\* Largest number of rows of one record set on disk.
MaxRows == 2

Tickers == {"A", "B"}
Fields == {"open", "close"}

\* The i-th trading day, as the date the files carry (2023-01-0i).
Day(i) == 20230100 + i
Dates == {Day(i) : i \in 1..NumDates}

\* --------------------------------------------------------- sequence helpers
Range(s) == {s[i] : i \in DOMAIN s}

IsInjective(s) == \A i, j \in DOMAIN s : i # j => s[i] # s[j]

\* All sequences over S of length at most n.
SeqsUpTo(S, n) == UNION {[1..k -> S] : k \in 0..n}

\* All duplicate-free sequences over S of length at most n.
InjSeqs(S, n) == {s \in SeqsUpTo(S, n) : IsInjective(s)}

\* ------------------------------------------------------------ the cells
NaN == <<>>
Cell(v) == <<v>>

\* ---------------------------------------------------------------- the disk
\* A parquet resource: whether it exists, its column names and its rows in
\* file order; a row maps every column name to a number.
NoFile == [exists |-> FALSE, cols |-> {}, rows |-> <<>>]

TickerNo(t) == IF t = "A" THEN 1 ELSE 2
ColNo(c) == CASE c = "open" -> 1 [] c = "close" -> 2 [] OTHER -> 3

\* The number stored for ticker t in column c at date d: different for every
\* (t, c, d), so that a cell taken from the wrong ticker, column or date shows.
StoredValue(t, c, d) == TickerNo(t) * 100 + ColNo(c) * 10 + (d - Day(0))

MkFile(t, cols, ds) ==
    [exists |-> TRUE,
     cols   |-> cols \cup {"date"},
     rows   |-> [i \in 1..Len(ds) |->
                    [c \in cols \cup {"date"} |->
                        IF c = "date" THEN ds[i] ELSE StoredValue(t, c, ds[i])]]]

\* The date sequences a record set may carry: unique dates, any row order.
DateSeqs == InjSeqs(Dates, MaxRows)

\* DefaultStorageAdapter.get_path: the address depends on the instrument and
\* the name only; market, timeframe and base_url are fixed per Vquant object
\* and the category is not part of the path.
get_path(instrument, category, name) == <<instrument, name>>

\* The resources a disk may hold: per ticker, the OHLCV file and the file of
\* one stored factor.
FileNames == {"ohlcv", "rsi_14"}
Paths == {get_path(t, "any", n) : t \in Tickers, n \in FileNames}

\* disk:  the resources Vquant reads, by path
\* store: the file save_factor writes (one market, instrument, timeframe and
\*        category)
\* res:   the outcome of the Vquant call last made
\* last:  the save_factor call last made
\* stack: the calls in progress of a get_factors call that is followed step
\*        by step through ComputedFactor.fetch, the innermost call last
\* ret:   what the call that ended last returned or raised to its caller
VARIABLES disk, store, res, last, stack, ret
vars == <<disk, store, res, last, stack, ret>>

\* pd.read_parquet(path): the resource, or FileNotFoundError.
Exists(d, path) == path \in DOMAIN d /\ d[path].exists

\* ------------------------------------------------------- pandas operations
\* A Series: index labels and cells, positionally parallel.
MkSeries(index, vals) == [index |-> index, vals |-> vals]

\* df.set_index("date")[c]: the column c keyed by the date column.
ColumnByDate(f, c) ==
    MkSeries([i \in 1..Len(f.rows) |-> f.rows[i]["date"]],
             [i \in 1..Len(f.rows) |-> Cell(f.rows[i][c])])

\* Series.reindex(newIndex): the cell under the same label, NaN when the
\* series has no such label.
Reindex(s, newIndex) ==
    MkSeries(newIndex,
             [i \in 1..Len(newIndex) |->
                 IF \E j \in 1..Len(s.index) : s.index[j] = newIndex[i]
                 THEN s.vals[CHOOSE j \in 1..Len(s.index) : s.index[j] = newIndex[i]]
                 ELSE NaN])

RECURSIVE Concat(_)
\* pd.concat of a sequence of sequences.
Concat(ss) == IF ss = <<>> THEN <<>> ELSE Head(ss) \o Concat(Tail(ss))

RECURSIVE Unique(_)
\* Series.unique(): first occurrences, in order of appearance.
Unique(s) ==
    IF s = <<>> THEN <<>>
    ELSE LET front == Unique(SubSeq(s, 1, Len(s) - 1))
             x     == s[Len(s)]
         IN IF x \in Range(front) THEN front ELSE Append(front, x)

RECURSIVE Insert(_, _)
Insert(x, s) ==
    IF s = <<>> THEN <<x>>
    ELSE IF x <= Head(s) THEN <<x>> \o s
    ELSE <<Head(s)>> \o Insert(x, Tail(s))

RECURSIVE sorted(_)
\* Python's sorted(): ascending, duplicates kept.
sorted(s) == IF s = <<>> THEN <<>> ELSE Insert(Head(s), sorted(Tail(s)))

\* A product that groups by the inner list first.
from_product_inner_major(outer, inner) ==
    [k \in 1..(Len(outer) * Len(inner)) |->
        <<outer[((k - 1) % Len(outer)) + 1], inner[((k - 1) \div Len(outer)) + 1]>>]

RECURSIVE from_product(_, _)
\* pd.MultiIndex.from_product([outer, inner]): outer-major pairs, each level
\* in the order given.
from_product(outer, inner) ==
    IF outer = <<>> THEN <<>>
    ELSE [j \in 1..Len(inner) |-> <<Head(outer), inner[j]>>]
         \o from_product(Tail(outer), inner)

\* A DataFrame: row index, column labels, columns (parallel to the labels).
MkFrame(index, labels, data) == [index |-> index, labels |-> labels, data |-> data]
NoTable == MkFrame(<<>>, <<>>, <<>>)

\* frame[key] = series: every column labelled key is overwritten in place; a
\* new label is appended as the last column.
SetItem(frame, key, s) ==
    IF key \in Range(frame.labels)
    THEN MkFrame(frame.index, frame.labels,
                 [k \in 1..Len(frame.labels) |->
                     IF frame.labels[k] = key THEN s.vals ELSE frame.data[k]])
    ELSE MkFrame(frame.index, Append(frame.labels, key), Append(frame.data, s.vals))

\* ------------------------------------------------------------- get_ohlcv
\* A dict in insertion order: a sequence of <<key, value>> pairs.
DictPut(dict, k, v) ==
    IF \E i \in 1..Len(dict) : dict[i][1] = k
    THEN [i \in 1..Len(dict) |-> IF dict[i][1] = k THEN <<k, v>> ELSE dict[i]]
    ELSE Append(dict, <<k, v>>)

DictGet(dict, k) == dict[CHOOSE i \in 1..Len(dict) : dict[i][1] = k][2]

\* pd.read_parquet(path)[["date"] + cols].set_index("date") succeeds.
OhlcvReadable(d, ticker, cols) ==
    LET path == get_path(ticker, "ohlcv", "ohlcv")
    IN Exists(d, path) /\ ({"date"} \cup Range(cols)) \subseteq d[path].cols

\* The frame read for one ticker: its date index and the requested columns.
ReadOhlcv(d, ticker, cols) ==
    LET f == d[get_path(ticker, "ohlcv", "ohlcv")]
    IN [index |-> [i \in 1..Len(f.rows) |-> f.rows[i]["date"]],
        col   |-> [c \in Range(cols) |-> ColumnByDate(f, c)]]

RECURSIVE LoadOhlcvRaisesNotFound(_, _, _, _)
\* A loading loop that reports a failed read as FactorNotFoundError.
LoadOhlcvRaisesNotFound(d, tickers, cols, result) ==
    IF tickers = <<>> THEN [error |-> "none", result |-> result]
    ELSE IF ~OhlcvReadable(d, Head(tickers), cols)
    THEN [error |-> "FactorNotFoundError", result |-> <<>>]
    ELSE LoadOhlcvRaisesNotFound(d, Tail(tickers), cols,
                   DictPut(result, Head(tickers), ReadOhlcv(d, Head(tickers), cols)))

RECURSIVE LoadOhlcv(_, _, _, _)
\* The loading loop: the dict of frames, or the error of the first ticker
\* whose read raises.
LoadOhlcv(d, tickers, cols, result) ==
    IF tickers = <<>> THEN [error |-> "none", result |-> result]
    ELSE IF ~OhlcvReadable(d, Head(tickers), cols)
    THEN [error |-> "DataLoadError", result |-> <<>>]
    ELSE LoadOhlcv(d, Tail(tickers), cols,
                   DictPut(result, Head(tickers), ReadOhlcv(d, Head(tickers), cols)))

\* A date index that is left in order of first appearance.
AllDatesUnsorted(result) ==
    Unique(Concat([i \in 1..Len(result) |-> result[i][2].index]))

\* The unified date index of the loaded frames.
AllDates(result) ==
    sorted(Unique(Concat([i \in 1..Len(result) |-> result[i][2].index])))

RECURSIVE AlignCols(_, _, _, _, _)
AlignCols(frame, df, allDates, ticker, cols) ==
    IF cols = <<>> THEN frame
    ELSE AlignCols(SetItem(frame, <<Head(cols), ticker>>,
                           Reindex(df.col[Head(cols)], allDates)),
                   df, allDates, ticker, Tail(cols))

RECURSIVE AlignTickers(_, _, _, _, _)
\* The alignment loop: ticker by ticker, column by column.
AlignTickers(frame, result, allDates, tickers, cols) ==
    IF tickers = <<>> THEN frame
    ELSE AlignTickers(AlignCols(frame, DictGet(result, Head(tickers)), allDates,
                                Head(tickers), cols),
                      result, allDates, Tail(tickers), cols)

\* The outcome of a call: the error raised ("none" when it returns) and the
\* table returned.
Outcome(op, tickers, names, error, table) ==
    [op |-> op, tickers |-> tickers, names |-> names, error |-> error, table |-> table]

NoCall == Outcome("none", <<>>, <<>>, "none", NoTable)

get_ohlcv(d, tickers, cols) ==
    LET loaded == LoadOhlcv(d, tickers, cols, <<>>)
    IN IF loaded.error # "none"
       THEN Outcome("get_ohlcv", tickers, cols, loaded.error, NoTable)
       ELSE IF loaded.result = <<>>
       \* pd.concat([]) raises ValueError("No objects to concatenate")
       THEN Outcome("get_ohlcv", tickers, cols, "ValueError", NoTable)
       ELSE LET all_dates     == AllDates(loaded.result)
                multi_columns == from_product(cols, tickers)
                aligned_data  == AlignTickers(MkFrame(all_dates, <<>>, <<>>),
                                              loaded.result, all_dates, tickers, cols)
            IN IF Len(aligned_data.labels) # Len(multi_columns)
               \* aligned_data.columns = multi_columns: length mismatch
               THEN Outcome("get_ohlcv", tickers, cols, "ValueError", NoTable)
               ELSE Outcome("get_ohlcv", tickers, cols, "none",
                            MkFrame(all_dates, multi_columns, aligned_data.data))

\* ----------------------------------------------------------- get_factors
\* A factor specification string, as its segments between the dots:
\* "rsi_14" is <<"rsi_14">> and "alt.rsi_14" is <<"alt", "rsi_14">>.
HasDot(f) == Len(f) > 1

\* f.split(".", 1): what precedes the first dot, and the rest.
SplitFirstDot(f) == <<f[1], Tail(f)>>

\* The StoredFactor a string resolves to.
Resolve(f) ==
    IF HasDot(f)
    THEN [category |-> SplitFirstDot(f)[1], name |-> SplitFirstDot(f)[2]]
    ELSE [category |-> "technical", name |-> f]

\* Factor.full_name: category + "." + name.
full_name(factor) == <<factor.category>> \o factor.name

\* The file name a factor name addresses: a name with a dot in it names no
\* resource of the disk.
FileNameOf(name) == IF Len(name) = 1 THEN name[1] ELSE "none"

\* StoredFactor.fetch: the error raised, or the "value" column as read, which
\* read_parquet returns under its default index 0, 1, 2, ...
StoredFetch(d, ticker, factor) ==
    LET path == get_path(ticker, factor.category, FileNameOf(factor.name))
    IN IF ~Exists(d, path)
       THEN [error |-> "FactorNotFoundError", series |-> MkSeries(<<>>, <<>>)]
       ELSE IF "value" \notin d[path].cols
       THEN [error |-> "DataLoadError", series |-> MkSeries(<<>>, <<>>)]
       ELSE [error  |-> "none",
             series |-> MkSeries([i \in 1..Len(d[path].rows) |-> i - 1],
                                 [i \in 1..Len(d[path].rows) |->
                                     Cell(d[path].rows[i]["value"])])]

\* pd.read_parquet(path).set_index("date") succeeds.
BaseReadable(d, ticker) ==
    LET path == get_path(ticker, "ohlcv", "ohlcv")
    IN Exists(d, path) /\ "date" \in d[path].cols

\* The base frame of one ticker: every column of the file, keyed by date.
ReadBase(d, ticker) ==
    LET f == d[get_path(ticker, "ohlcv", "ohlcv")]
    IN [index |-> [i \in 1..Len(f.rows) |-> f.rows[i]["date"]],
        col   |-> [c \in f.cols \ {"date"} |-> ColumnByDate(f, c)]]

RECURSIVE LoadBase(_, _, _)
\* The loop that loads the base OHLCV data of every ticker.
LoadBase(d, tickers, base_data) ==
    IF tickers = <<>> THEN [error |-> "none", result |-> base_data]
    ELSE IF ~BaseReadable(d, Head(tickers))
    THEN [error |-> "DataLoadError", result |-> <<>>]
    ELSE LoadBase(d, Tail(tickers),
                  DictPut(base_data, Head(tickers), ReadBase(d, Head(tickers))))

\* A date index that keeps a date once per ticker that has it.
FactorDatesWithRepeats(base_data) ==
    sorted(Concat([i \in 1..Len(base_data) |-> base_data[i][2].index]))

\* The unified date index of get_factors: the dates of the base frames.
FactorDates(base_data) ==
    sorted(Unique(Concat([i \in 1..Len(base_data) |-> base_data[i][2].index])))

\* What the caller of get_factors receives when fetch raises.
WrapFetchError(error) == "FactorNotFoundError"

RECURSIVE FetchFactors(_, _, _, _, _)
\* The inner loop: fetch each factor of one ticker and store it reindexed;
\* the first fetch that raises ends the call.
FetchFactors(d, frame, all_dates, ticker, factors) ==
    IF factors = <<>> THEN [error |-> "none", frame |-> frame]
    ELSE LET got == StoredFetch(d, ticker, Head(factors))
         IN IF got.error # "none"
            THEN [error |-> WrapFetchError(got.error), frame |-> frame]
            ELSE FetchFactors(d,
                              SetItem(frame, <<full_name(Head(factors)), ticker>>,
                                      Reindex(got.series, all_dates)),
                              all_dates, ticker, Tail(factors))

RECURSIVE FetchTickers(_, _, _, _, _)
\* The outer loop over the tickers.
FetchTickers(d, frame, all_dates, tickers, factors) ==
    IF tickers = <<>> THEN [error |-> "none", frame |-> frame]
    ELSE LET got == FetchFactors(d, frame, all_dates, Head(tickers), factors)
         IN IF got.error # "none" THEN got
            ELSE FetchTickers(d, got.frame, all_dates, Tail(tickers), factors)

get_factors(d, tickers, factors) ==
    LET resolved_factors == [i \in 1..Len(factors) |-> Resolve(factors[i])]
        factor_names     == [i \in 1..Len(factors) |-> full_name(resolved_factors[i])]
        multi_columns    == from_product(factor_names, tickers)
        loaded           == LoadBase(d, tickers, <<>>)
    IN IF loaded.error # "none"
       THEN Outcome("get_factors", tickers, factors, loaded.error, NoTable)
       ELSE IF loaded.result = <<>>
       \* pd.concat([]) raises ValueError("No objects to concatenate")
       THEN Outcome("get_factors", tickers, factors, "ValueError", NoTable)
       ELSE LET all_dates == FactorDates(loaded.result)
                result_df == MkFrame(all_dates, multi_columns,
                                     [k \in 1..Len(multi_columns) |->
                                         [r \in 1..Len(all_dates) |-> NaN]])
                fetched   == FetchTickers(d, result_df, all_dates, tickers,
                                          resolved_factors)
            IN IF fetched.error # "none"
               THEN Outcome("get_factors", tickers, factors, fetched.error, NoTable)
               ELSE Outcome("get_factors", tickers, factors, "none", fetched.frame)

\* ----------------------------------------------------------- the requests
TickerLists == SeqsUpTo(Tickers, 2)
ColLists == InjSeqs(Fields, 2)
FactorSpecs == {<<"rsi_14">>, <<"alt", "rsi_14">>}
FactorLists == SeqsUpTo(FactorSpecs, 2)

\* --------------------------------------------------------------- the disks
\* One choice of file per ticker, from that ticker's own files.
FilesPerTicker(files) ==
    {o \in [Tickers -> UNION {files[t] : t \in Tickers}] :
        \A t \in Tickers : o[t] \in files[t]}

\* An OHLCV resource: absent, or without the "close" column, or complete with
\* its rows in any order.
OhlcvFiles(t) ==
    {NoFile} \cup {MkFile(t, Fields, ds) : ds \in DateSeqs}
             \cup {MkFile(t, {"open"}, <<Day(1)>>)}

\* The disks that hold OHLCV resources only.
OhlcvDisks ==
    {[p \in Paths |-> IF p[2] = "ohlcv" THEN o[p[1]] ELSE NoFile] :
        o \in FilesPerTicker([t \in Tickers |-> OhlcvFiles(t)])}

\* Runs of consecutive days, in ascending order, of at most MaxRows days.
Windows ==
    {[i \in 1..n |-> Day(a + i - 1)] : a \in 1..NumDates, n \in 0..MaxRows}
        \cap SeqsUpTo(Dates, MaxRows)

\* An OHLCV resource kept sorted by date: absent, or a run of days.
SortedOhlcvFiles(t) == {NoFile} \cup {MkFile(t, Fields, ds) : ds \in Windows}

\* A stored factor's resource: absent, or holding the factor under its own
\* name instead of "value", or a run of days with a "value" column.
FactorFiles(t) ==
    {NoFile} \cup {MkFile(t, {"rsi_14"}, <<Day(1)>>)}
             \cup {MkFile(t, {"value"}, ds) : ds \in Windows}

\* The disks that hold OHLCV and stored factor resources.
FactorDisks ==
    {[p \in Paths |-> IF p[2] = "ohlcv" THEN o[p[1]] ELSE f[p[1]]] :
        o \in FilesPerTicker([t \in Tickers |-> SortedOhlcvFiles(t)]),
        f \in FilesPerTicker([t \in Tickers |-> FactorFiles(t)])}

\* ------------------------------------------------------------ save_factor
\* The storage layer's save_factor, for one target file and one column
\* (the test's "volatility_20"); a row is [date, volatility_20].
NewValue(v, d) == v * 10 + (d - Day(0))

\* A caller's newData: unique dates in the caller's row order, the values of
\* its v-th revision of the factor.
MkNewData(ds, v) ==
    [i \in 1..Len(ds) |-> [date |-> ds[i], volatility_20 |-> NewValue(v, ds[i])]]

Revisions == {1, 2}

\* Of the rows that share a date, the last one.
KeepLast(rows) ==
    LET kept == {i \in 1..Len(rows) :
                    \A j \in 1..Len(rows) : j > i => rows[j].date # rows[i].date}
        nth(n) == CHOOSE i \in kept : Cardinality({k \in kept : k < i}) = n - 1
    IN [n \in 1..Cardinality(kept) |-> rows[nth(n)]]

RECURSIVE InsertByDate(_, _)
InsertByDate(row, rows) ==
    IF rows = <<>> THEN <<row>>
    ELSE IF row.date <= Head(rows).date THEN <<row>> \o rows
    ELSE <<Head(rows)>> \o InsertByDate(row, Tail(rows))

RECURSIVE SortByDate(_)
SortByDate(rows) ==
    IF rows = <<>> THEN <<>> ELSE InsertByDate(Head(rows), SortByDate(Tail(rows)))

\* The first of the rows that share a date.
KeepFirst(rows) ==
    LET kept == {i \in 1..Len(rows) :
                    \A j \in 1..Len(rows) : j < i => rows[j].date # rows[i].date}
        nth(n) == CHOOSE i \in kept : Cardinality({k \in kept : k < i}) = n - 1
    IN [n \in 1..Cardinality(kept) |-> rows[nth(n)]]

\* An upsert in which the existing row wins over newData's.
UpsertKeepExisting(existing, newData) == SortByDate(KeepFirst(existing \o newData))

\* The upsert on the date key: newData's row replaces the existing row of the
\* same date, the other rows of both are kept; deduplicated, sorted by date.
Upsert(existing, newData) == SortByDate(KeepLast(existing \o newData))

\* save_factor: an absent target is created with newData as its content; an
\* existing one is loaded, upserted and rewritten.
save_factor(file, newData) ==
    IF ~file.exists
    THEN [exists |-> TRUE, cols |-> {"date", "volatility_20"}, rows |-> newData]
    ELSE [exists |-> TRUE, cols |-> file.cols \cup {"date", "volatility_20"},
          rows   |-> Upsert(file.rows, newData)]

NoSave == [op |-> "none", newData |-> <<>>, before |-> NoFile]

\* ------------------------------------------------------- Factor instances
\* Factor.__init__ for the two variants; a StoredFactor has no dependencies.
StoredFactor(name, category) ==
    [kind |-> "StoredFactor", category |-> category, name |-> name,
     dependencies |-> <<>>]

\* ComputedFactor.__init__: dependencies or ["ohlcv.close"].
ComputedFactor(name, category, dependencies) ==
    [kind |-> "ComputedFactor", category |-> category, name |-> name,
     dependencies |-> IF dependencies = <<>> THEN <<<<"ohlcv", "close">>>>
                      ELSE dependencies]

NoFactor == StoredFactor(<<>>, "none")

\* What a call returned or raised to its caller: the function that ended,
\* for ComputedFactor.fetch the factor and the ticker, and the error raised
\* ("none" when it returned its value).
Ret(from, factor, ticker, error) ==
    [from |-> from, factor |-> factor, ticker |-> ticker, error |-> error]

\* Nothing returned or raised yet.
NoRet == Ret("none", NoFactor, "none", "none")

\* ------------------------------------------------------- the state machine
Init ==
    /\ disk \in OhlcvDisks
    /\ store = NoFile
    /\ res = NoCall
    /\ last = NoSave
    /\ stack = <<>>
    /\ ret = NoRet

InitFactors ==
    /\ disk \in FactorDisks
    /\ store = NoFile
    /\ res = NoCall
    /\ last = NoSave
    /\ stack = <<>>
    /\ ret = NoRet

\* Vquant is synchronous and keeps nothing between calls: a call starts when
\* no outcome is outstanding, and reads the disk afresh.
GetOhlcv ==
    /\ res.op = "none"
    /\ \E tickers \in TickerLists, cols \in ColLists :
          res' = get_ohlcv(disk, tickers, cols)
    /\ UNCHANGED <<disk, store, last, stack, ret>>

GetFactors ==
    /\ res.op = "none"
    /\ \E tickers \in TickerLists, factors \in FactorLists :
          res' = get_factors(disk, tickers, factors)
    /\ UNCHANGED <<disk, store, last, stack, ret>>

\* The caller is done with the outcome of its call.
Release ==
    /\ res.op # "none"
    /\ res' = NoCall
    /\ UNCHANGED <<disk, store, last, stack, ret>>

\* One save_factor call on the target file.
SaveFactor ==
    /\ \E ds \in DateSeqs, v \in Revisions :
          /\ store' = save_factor(store, MkNewData(ds, v))
          /\ last' = [op |-> "save_factor", newData |-> MkNewData(ds, v),
                      before |-> store]
    /\ UNCHANGED <<disk, res, stack, ret>>

\* The storage location before any save: no file.
InitStorage ==
    /\ disk = [p \in Paths |-> NoFile]
    /\ store = NoFile
    /\ res = NoCall
    /\ last = NoSave
    /\ stack = <<>>
    /\ ret = NoRet

Next == GetOhlcv \/ Release

NextFactors == GetOhlcv \/ GetFactors \/ Release

Spec == Init /\ [][Next]_vars

SpecFactors == InitFactors /\ [][NextFactors]_vars

NextStorage == SaveFactor

SpecStorage == InitStorage /\ [][NextStorage]_vars

\* ------------------------------------- get_factors and ComputedFactor.fetch
\* The calls get_factors and ComputedFactor.fetch make to each other, one
\* step per call and per return.
\* Largest number of calls in progress.
MaxDepth == 4

\* The computed factors user code has created: one that names itself, two
\* that name each other, one with the default dependency and one over the
\* stored rsi_14.
SelfFactor == ComputedFactor(<<"rsi_14">>, "technical", <<<<"technical", "rsi_14">>>>)
AltFactor == ComputedFactor(<<"rsi_14">>, "alt", <<<<"fast", "rsi_14">>>>)
FastFactor == ComputedFactor(<<"rsi_14">>, "fast", <<<<"alt", "rsi_14">>>>)
DefaultFactor == ComputedFactor(<<"returns">>, "technical", <<>>)
SmoothFactor == ComputedFactor(<<"smooth">>, "technical", <<<<"rsi_14">>>>)
ComputedFactors == {SelfFactor, AltFactor, FastFactor, DefaultFactor, SmoothFactor}

\* An element of the factors list: a str or a Factor instance.
StrEntry(f) == [isinstance |-> "str", spec |-> f, factor |-> NoFactor]
FactorEntry(factor) == [isinstance |-> "Factor", spec |-> <<>>, factor |-> factor]

\* A resolution that looks a name up among the computed factors first.
ResolveEntryByName(e) ==
    IF e.isinstance = "str"
    THEN IF \E cf \in ComputedFactors : full_name(cf) = full_name(Resolve(e.spec))
         THEN CHOOSE cf \in ComputedFactors : full_name(cf) = full_name(Resolve(e.spec))
         ELSE StoredFactor(Resolve(e.spec).name, Resolve(e.spec).category)
    ELSE e.factor

\* The resolution loop of get_factors, for one element: a str becomes a
\* StoredFactor, a Factor instance is taken as it is.
ResolveEntry(e) ==
    IF e.isinstance = "str"
    THEN StoredFactor(Resolve(e.spec).name, Resolve(e.spec).category)
    ELSE e.factor

\* A call in progress: of get_factors, with its tickers, its resolved factors
\* and the ticker i and factor k it is to fetch next; or of
\* ComputedFactor.fetch, with its ticker and factor, k telling whether it has
\* called get_factors.
Frame(fn, tickers, factors, i, k, factor) ==
    [fn |-> fn, tickers |-> tickers, factors |-> factors, i |-> i, k |-> k,
     factor |-> factor]

Top(st) == st[Len(st)]
Pop(st) == SubSeq(st, 1, Len(st) - 1)
SetTop(st, fr) == Append(Pop(st), fr)

\* The next (ticker, factor) of the two loops.
Advance(fr) ==
    IF fr.k < Len(fr.factors) THEN [fr EXCEPT !.k = @ + 1]
    ELSE [fr EXCEPT !.i = @ + 1, !.k = 1]

\* Both loops are over.
LoopsDone(fr) == fr.i > Len(fr.tickers)

\* get_factors up to its loops: resolve, load the base data, build the index
\* and the empty table; the stack and what is raised, if anything.
EnterGetFactors(st, tickers, entries) ==
    LET loaded == LoadBase(disk, tickers, <<>>)
        factors == [n \in 1..Len(entries) |-> ResolveEntry(entries[n])]
    IN IF loaded.error # "none"
       THEN [stack |-> st, ret |-> Ret("get_factors", NoFactor, "none", loaded.error)]
       ELSE IF loaded.result = <<>>
       THEN [stack |-> st, ret |-> Ret("get_factors", NoFactor, "none", "ValueError")]
       ELSE [stack |-> Append(st, Frame("get_factors", tickers, factors,
                                        IF factors = <<>> THEN Len(tickers) + 1 ELSE 1,
                                        1, NoFactor)),
             ret   |-> NoRet]

ComputedTickerLists == SeqsUpTo(Tickers, 2)
Entries ==
    {FactorEntry(SelfFactor), FactorEntry(AltFactor), FactorEntry(DefaultFactor),
     FactorEntry(SmoothFactor), StrEntry(<<"rsi_14">>)}
EntryLists == SeqsUpTo(Entries, 2)

\* The disks the step-by-step calls read: per ticker an OHLCV file or none,
\* and a stored rsi_14 that is absent, without "value" column, or loadable.
ComputedDisks ==
    {[p \in Paths |-> IF p[2] = "ohlcv" THEN o[p[1]] ELSE f[p[1]]] :
        o \in FilesPerTicker([t \in Tickers |-> {NoFile, MkFile(t, Fields, <<Day(1)>>)}]),
        f \in FilesPerTicker([t \in Tickers |->
                 {NoFile, MkFile(t, {"rsi_14"}, <<Day(1)>>),
                  MkFile(t, {"value"}, <<Day(1)>>)}])}

InitComputed ==
    /\ disk \in ComputedDisks
    /\ store = NoFile
    /\ res = NoCall
    /\ last = NoSave
    /\ stack = <<>>
    /\ ret = NoRet

\* User code calls get_factors.
CallGetFactors ==
    /\ stack = <<>>
    /\ \E tickers \in ComputedTickerLists, entries \in EntryLists :
          LET e == EnterGetFactors(<<>>, tickers, entries)
          IN stack' = e.stack /\ ret' = e.ret
    /\ UNCHANGED <<disk, store, res, last>>

InGetFactors ==
    stack # <<>> /\ Top(stack).fn = "get_factors" /\ ret.from = "none"

\* get_factors fetches a StoredFactor: a fetch that raises ends the call.
FetchStored ==
    /\ InGetFactors /\ ~LoopsDone(Top(stack))
    /\ LET fr  == Top(stack)
           f   == fr.factors[fr.k]
           got == StoredFetch(disk, fr.tickers[fr.i], f)
       IN /\ f.kind = "StoredFactor"
          /\ IF got.error # "none"
             THEN /\ stack' = Pop(stack)
                  /\ ret' = Ret("get_factors", NoFactor, "none", WrapFetchError(got.error))
             ELSE /\ stack' = SetTop(stack, Advance(fr))
                  /\ ret' = NoRet
    /\ UNCHANGED <<disk, store, res, last>>

\* get_factors calls factor.fetch(self, ticker) of a ComputedFactor.
CallComputedFetch ==
    /\ InGetFactors /\ ~LoopsDone(Top(stack))
    /\ Len(stack) < MaxDepth
    /\ LET fr == Top(stack)
           f  == fr.factors[fr.k]
       IN /\ f.kind = "ComputedFactor"
          /\ stack' = Append(stack, Frame("ComputedFactor.fetch", <<fr.tickers[fr.i]>>,
                                          <<>>, 0, 0, f))
    /\ ret' = NoRet
    /\ UNCHANGED <<disk, store, res, last>>

\* ComputedFactor.fetch calls vquant.get_factors([ticker], dependencies).
FetchDependencies ==
    /\ stack # <<>> /\ Top(stack).fn = "ComputedFactor.fetch"
    /\ Top(stack).k = 0 /\ ret.from = "none"
    /\ Len(stack) < MaxDepth
    /\ LET fr == Top(stack)
           e  == EnterGetFactors(SetTop(stack, [fr EXCEPT !.k = 1]), fr.tickers,
                                 [n \in 1..Len(fr.factor.dependencies) |->
                                     StrEntry(fr.factor.dependencies[n])])
       IN stack' = e.stack /\ ret' = e.ret
    /\ UNCHANGED <<disk, store, res, last>>

\* get_factors returns its table: both loops are over.
ReturnTable ==
    /\ InGetFactors /\ LoopsDone(Top(stack))
    /\ stack' = Pop(stack)
    /\ ret' = Ret("get_factors", NoFactor, "none", "none")
    /\ UNCHANGED <<disk, store, res, last>>

\* ComputedFactor.fetch gets the dependencies' table and returns the
\* transform's series, or lets what get_factors raised pass.
ReturnSeries ==
    /\ stack # <<>> /\ Top(stack).fn = "ComputedFactor.fetch"
    /\ Top(stack).k = 1 /\ ret.from = "get_factors"
    /\ stack' = Pop(stack)
    /\ ret' = Ret("ComputedFactor.fetch", Top(stack).factor, Top(stack).tickers[1],
                  ret.error)
    /\ UNCHANGED <<disk, store, res, last>>

\* get_factors gets the series of a ComputedFactor, or what its fetch raised.
ResumeGetFactors ==
    /\ stack # <<>> /\ Top(stack).fn = "get_factors"
    /\ ret.from = "ComputedFactor.fetch"
    /\ IF ret.error # "none"
       THEN /\ stack' = Pop(stack)
            /\ ret' = Ret("get_factors", NoFactor, "none", WrapFetchError(ret.error))
       ELSE /\ stack' = SetTop(stack, Advance(Top(stack)))
            /\ ret' = NoRet
    /\ UNCHANGED <<disk, store, res, last>>

NextComputed ==
    \/ CallGetFactors
    \/ FetchStored
    \/ CallComputedFetch
    \/ FetchDependencies
    \/ ReturnTable
    \/ ReturnSeries
    \/ ResumeGetFactors

SpecComputed == InitComputed /\ [][NextComputed]_vars

\* ------------------------------------------------------------ the claims
\* The dates of the record set at a path, as a set.
FileDates(d, path) == {d[path].rows[i]["date"] : i \in 1..Len(d[path].rows)}

OhlcvPath(t) == get_path(t, "ohlcv", "ohlcv")

OhlcvReturned == res.op = "get_ohlcv" /\ res.error = "none"

\* C1: in the table get_ohlcv returns for distinct tickers and distinct
\* cols, the cell of the column labelled (c, t) at date d is ticker t's stored
\* value of field c at d when t's record set has d, and the missing marker
\* otherwise.
C1_CellsUnderTheirLabel ==
    (OhlcvReturned /\ IsInjective(res.tickers) /\ IsInjective(res.names)) =>
        \A k \in 1..Len(res.table.labels), r \in 1..Len(res.table.index) :
            LET c == res.table.labels[k][1]
                t == res.table.labels[k][2]
                d == res.table.index[r]
                f == disk[OhlcvPath(t)]
            IN res.table.data[k][r] =
                   IF d \in FileDates(disk, OhlcvPath(t))
                   THEN Cell(f.rows[CHOOSE i \in 1..Len(f.rows) :
                                        f.rows[i]["date"] = d][c])
                   ELSE NaN

\* C2: the row index of the table get_ohlcv returns is the union of the
\* dates of the requested tickers' record sets, strictly ascending (so
\* without duplicates).
C2_IndexIsSortedUnion ==
    OhlcvReturned =>
        /\ Range(res.table.index) =
               UNION {FileDates(disk, OhlcvPath(t)) : t \in Range(res.tickers)}
        /\ \A i, j \in 1..Len(res.table.index) :
               i < j => res.table.index[i] < res.table.index[j]

\* C2's case: two tickers whose record sets differ, one of them out of order.
C2_Witness ==
    /\ OhlcvReturned
    /\ Len(res.tickers) = 2
    /\ Len(res.table.index) = 3
    /\ \E t \in Range(res.tickers) :
           /\ FileDates(disk, OhlcvPath(t)) # Range(res.table.index)
           /\ Len(disk[OhlcvPath(t)].rows) = 2
           /\ disk[OhlcvPath(t)].rows[1]["date"] > disk[OhlcvPath(t)].rows[2]["date"]

\* C4: when the OHLCV resource of any requested ticker is absent or cannot
\* be read, get_ohlcv ends with DataLoadError and returns no table.
C4_FailFast ==
    (res.op = "get_ohlcv"
        /\ \E i \in 1..Len(res.tickers) : ~OhlcvReadable(disk, res.tickers[i], res.names))
    => (res.error = "DataLoadError" /\ res.table = NoTable)

\* C4's case: the second ticker fails after the first one loaded.
C4_Witness ==
    /\ res.op = "get_ohlcv"
    /\ Len(res.tickers) = 2
    /\ OhlcvReadable(disk, res.tickers[1], res.names)
    /\ Len(disk[OhlcvPath(res.tickers[1])].rows) > 0
    /\ ~OhlcvReadable(disk, res.tickers[2], res.names)
    /\ res.error = "DataLoadError"

FactorsReturned == res.op = "get_factors" /\ res.error = "none"

FactorPath(t, f) == get_path(t, Resolve(f).category, FileNameOf(Resolve(f).name))

\* The name that labels the columns of the i-th requested field or factor.
RequestedName(i) ==
    IF res.op = "get_ohlcv" THEN res.names[i] ELSE full_name(Resolve(res.names[i]))

\* C3: the column labels of the table get_ohlcv or get_factors returns are
\* the pairs (name, ticker), name outer and ticker inner, each in the order
\* of the caller's list: the label at position i*|tickers| + j (from 0) is
\* (names[i], tickers[j]).
C3_LabelsInCallerOrder ==
    (OhlcvReturned \/ FactorsReturned) =>
        /\ Len(res.table.labels) = Len(res.names) * Len(res.tickers)
        /\ \A i \in 1..Len(res.names), j \in 1..Len(res.tickers) :
               res.table.labels[(i - 1) * Len(res.tickers) + j]
                   = <<RequestedName(i), res.tickers[j]>>

\* C3's case: get_factors with two factors and two tickers given in
\* descending order (get_ohlcv's case is C3_WitnessOhlcv).
C3_Witness ==
    /\ FactorsReturned
    /\ res.tickers = <<"B", "A">>
    /\ res.names = <<<<"rsi_14">>, <<"alt", "rsi_14">>>>
    /\ Len(res.table.labels) = 4

C3_WitnessOhlcv ==
    /\ OhlcvReturned
    /\ res.tickers = <<"B", "A">>
    /\ res.names = <<"open", "close">>
    /\ Len(res.table.labels) = 4

\* C5: get_factors ends with FactorNotFoundError when a requested stored
\* factor's resource does not exist and with DataLoadError when the resource
\* exists but has no "value" column (the base OHLCV data being loadable and
\* every factor fetched before it being fetchable).
C5_ErrorTellsTheCause ==
    \A i \in 1..Len(res.tickers), k \in 1..Len(res.names) :
        (/\ res.op = "get_factors"
         /\ \A t \in Range(res.tickers) : BaseReadable(disk, t)
         /\ \A i2 \in 1..Len(res.tickers), k2 \in 1..Len(res.names) :
                (i2 < i \/ (i2 = i /\ k2 < k)) =>
                    StoredFetch(disk, res.tickers[i2], Resolve(res.names[k2])).error = "none")
        => LET path == FactorPath(res.tickers[i], res.names[k])
           IN /\ ~Exists(disk, path) => res.error = "FactorNotFoundError"
              /\ (Exists(disk, path) /\ "value" \notin disk[path].cols)
                     => res.error = "DataLoadError"

\* C6: in the table get_factors returns, the cell at (factor full name,
\* ticker, date d) is the stored record set's "value" at d, for every d that
\* is in the record set and in the result index.
C6_FactorCellsByDate ==
    (FactorsReturned /\ IsInjective(res.tickers)) =>
        \A k \in 1..Len(res.names), j \in 1..Len(res.tickers),
           r \in 1..Len(res.table.index) :
            LET f   == disk[FactorPath(res.tickers[j], res.names[k])]
                d   == res.table.index[r]
                pos == (k - 1) * Len(res.tickers) + j
            IN (\E i \in 1..Len(f.rows) : f.rows[i]["date"] = d) =>
                   res.table.data[pos][r] =
                       Cell(f.rows[CHOOSE i \in 1..Len(f.rows) :
                                       f.rows[i]["date"] = d]["value"])

\* The dates of every series fetched in a get_factors call.
FetchedDates ==
    UNION {FileDates(disk, FactorPath(t, f)) :
              t \in Range(res.tickers), f \in Range(res.names)}

BaseDates == UNION {FileDates(disk, OhlcvPath(t)) : t \in Range(res.tickers)}

\* C10, as stated: the row index of the table get_factors returns is the
\* union of the dates of the factor series fetched in the call, strictly
\* ascending, so that a date of a fetched series is a row even when no base
\* OHLCV record set has it.
C10_IndexIsUnionOfFetched ==
    FactorsReturned =>
        /\ Range(res.table.index) = FetchedDates
        /\ \A i, j \in 1..Len(res.table.index) :
               i < j => res.table.index[i] < res.table.index[j]

\* C10, amended: the row index of the table get_factors returns is the
\* union of the dates of the requested tickers' base OHLCV record sets,
\* strictly ascending; a date that only a fetched factor series has is not a
\* row.
C10_IndexIsUnionOfBase ==
    FactorsReturned =>
        /\ Range(res.table.index) = BaseDates
        /\ \A i, j \in 1..Len(res.table.index) :
               i < j => res.table.index[i] < res.table.index[j]

\* C10's case: two tickers whose base dates differ, the later days first, and
\* a fetched factor series with a date no base record set has.
C10_Witness ==
    /\ FactorsReturned
    /\ Len(res.tickers) = 2
    /\ Len(res.names) > 0
    /\ FetchedDates \ BaseDates # {}
    /\ FileDates(disk, OhlcvPath(res.tickers[1])) # FileDates(disk, OhlcvPath(res.tickers[2]))
    /\ \E d1 \in FileDates(disk, OhlcvPath(res.tickers[1])) :
           \A d2 \in FileDates(disk, OhlcvPath(res.tickers[2])) : d2 < d1
    /\ FileDates(disk, OhlcvPath(res.tickers[2])) # {}

\* --------------------------------------------------- claims on save_factor
RowDates(rows) == {rows[i].date : i \in 1..Len(rows)}

\* The values a file's rows carry at date d.
ValuesAt(rows, d) == {rows[i].volatility_20 : i \in {k \in 1..Len(rows) : rows[k].date = d}}

SavedOnExisting == last.op = "save_factor" /\ last.before.exists

\* C7: after save_factor on an existing file, the file's dates are the
\* existing dates and newData's; at every date of newData the file has
\* newData's value; at every date only the existing file had, the prior value.
C7_UpsertByDate ==
    SavedOnExisting =>
        /\ RowDates(store.rows) = RowDates(last.before.rows) \cup RowDates(last.newData)
        /\ \A d \in RowDates(last.newData) :
               ValuesAt(store.rows, d) = ValuesAt(last.newData, d)
        /\ \A d \in RowDates(last.before.rows) \ RowDates(last.newData) :
               ValuesAt(store.rows, d) = ValuesAt(last.before.rows, d)

\* C7's case: newData overrides one date with another value, adds a date
\* and leaves one existing date alone.
C7_Witness ==
    /\ SavedOnExisting
    /\ \E d \in RowDates(last.newData) \cap RowDates(last.before.rows) :
           ValuesAt(last.newData, d) # ValuesAt(last.before.rows, d)
    /\ RowDates(last.newData) \ RowDates(last.before.rows) # {}
    /\ RowDates(last.before.rows) \ RowDates(last.newData) # {}

\* C8: a save_factor call with the newData of the call before it leaves the
\* file's content as that call left it.
C8_SavingTwiceIsSavingOnce ==
    [][(last.op = "save_factor" /\ last'.op = "save_factor"
            /\ last'.newData = last.newData) => store' = store]_vars

\* C9: after any sequence of save_factor calls from an empty location, the
\* file's dates are unique and ascending.
C9_DatesUniqueAscending ==
    store.exists =>
        \A i, j \in 1..Len(store.rows) : i < j => store.rows[i].date < store.rows[j].date

\* ------------------------------------------------ claims on computed factors
\* The full names a computed factor's dependency list names.
DependencyNames(cf) ==
    {full_name(Resolve(cf.dependencies[n])) : n \in 1..Len(cf.dependencies)}

\* The factor's dependency list names the factor itself, or a computed
\* factor whose list names it back.
IsCyclic(cf) ==
    /\ cf.kind = "ComputedFactor"
    /\ \/ full_name(cf) \in DependencyNames(cf)
       \/ \E g \in ComputedFactors :
             full_name(g) \in DependencyNames(cf) /\ full_name(cf) \in DependencyNames(g)

FetchesInProgress == {n \in 1..Len(stack) : stack[n].fn = "ComputedFactor.fetch"}

\* C11, as stated: the fetch of a computed factor with a cyclic dependency
\* never returns a series, and the get_factors call it makes fetches a
\* computed factor again, re-entering ComputedFactor.fetch.
C11_CyclicFetchNeverReturns ==
    /\ ~(ret.from = "ComputedFactor.fetch" /\ IsCyclic(ret.factor) /\ ret.error = "none")
    /\ \A n \in FetchesInProgress :
           (IsCyclic(stack[n].factor) /\ Len(stack) = n + 1 /\ ~LoopsDone(stack[n + 1])) =>
               stack[n + 1].factors[stack[n + 1].k].kind = "ComputedFactor"

\* C11, amended: a cyclic dependency is not detected and causes no
\* recursion.  The get_factors call that ComputedFactor.fetch makes resolves
\* every dependency name to a StoredFactor, so ComputedFactor.fetch is never
\* entered while another ComputedFactor.fetch is in progress, at most three
\* calls are in progress, and the fetch of a cyclic factor ends: it returns
\* the transform's series when every dependency name has a loadable stored
\* resource, and raises otherwise.
C11_NoReentry ==
    /\ Cardinality(FetchesInProgress) <= 1
    /\ Len(stack) <= 3
    /\ \A n \in 2..Len(stack) :
           stack[n].fn = "get_factors" =>
               \A k \in 1..Len(stack[n].factors) : stack[n].factors[k].kind = "StoredFactor"
    /\ (ret.from = "ComputedFactor.fetch" /\ IsCyclic(ret.factor)) =>
           (ret.error = "none" <=>
               \A n \in 1..Len(ret.factor.dependencies) :
                   LET dep == Resolve(ret.factor.dependencies[n])
                   IN StoredFetch(disk, ret.ticker,
                                  StoredFactor(dep.name, dep.category)).error = "none")

\* C11's case: the fetch of the factor that names itself has returned a
\* series to get_factors.
C11_Witness ==
    /\ ret.from = "ComputedFactor.fetch"
    /\ ret.factor = SelfFactor
    /\ ret.error = "none"
    /\ Len(stack) = 1

====
